---- MODULE Spec2Model ----
(***************************************************************************)
(* A model of hl7apy/parser.py: the structure assigner (create_groups,     *)
(* _find_group, _go_back), the separator extractor (get_message_info) and  *)
(* the segment decomposition (parse_segment, parse_fields, parse_field,    *)
(* parse_components, parse_subcomponents).                                 *)
(***************************************************************************)
EXTENDS Integers, Sequences, FiniteSets, TLC

(***************************************************************************)
(* Bounds of the model.                                                    *)
(***************************************************************************)
\* the longest list of segments handed to create_groups
MaxSegs == 3

\* the longest second field of a control segment given to get_message_info
MaxEnc == 5

\* the longest text of the fields 9 and 12 given to get_message_info
MaxFieldLen == 3

\* the most fields of a control segment given to get_message_info
MaxMshFields == 13

\* the longest text given to a decomposition function, after the opening of
\* a segment
MaxBody == 3

(***************************************************************************)
(* Sequence helpers (Python list operations).                              *)
(***************************************************************************)
Last(s) == s[Len(s)]

Front(s) == SubSeq(s, 1, Len(s) - 1)

\* list.index(v) as a 0-based position, -1 standing for ValueError
RECURSIVE PosFrom(_, _, _)
PosFrom(s, v, i) ==
  IF i > Len(s) THEN -1
  ELSE IF s[i] = v THEN i - 1
  ELSE PosFrom(s, v, i + 1)

ListIndex(s, v) == PosFrom(s, v, 1)

\* s[i] with Python's 0-based and negative indexing
PyAt(s, i) == IF i < 0 THEN s[Len(s) + i + 1] ELSE s[i + 1]

\* the index at which PyAt reads, as a 1-based position
PyPos(s, i) == IF i < 0 THEN Len(s) + i + 1 ELSE i + 1

RECURSIVE SeqsUpTo(_, _)
SeqsUpTo(S, k) ==
  IF k = 0 THEN {<<>>}
  ELSE LET shorter == SeqsUpTo(S, k - 1)
       IN  shorter \cup {Append(s, e) : s \in {t \in shorter : Len(t) = k - 1}, e \in S}

RECURSIVE SelectSeq2(_, _)
SelectSeq2(s, keep) ==
  IF s = <<>> THEN <<>>
  ELSE IF Head(s) \in keep THEN <<Head(s)>> \o SelectSeq2(Tail(s), keep)
  ELSE SelectSeq2(Tail(s), keep)

(***************************************************************************)
(* The schema provider, as create_groups uses it: a structure is the       *)
(* ordered list of its slots (structure_by_name, in key order), each with  *)
(* its class and its maximum cardinality (repetitions[name][1]; -1 stands  *)
(* for unbounded).                                                         *)
(***************************************************************************)
SegmentNames == {"MSH", "PID", "OBX", "ZZZ"}

Cardinalities == {1, -1}

Slot(name, cls, max) == [name |-> name, cls |-> cls, max |-> max]

\* The family of message grammars: a root with a control segment, a group G
\* of two segments and a group H holding a nested group K; the cardinalities
\* of G's segments, the order of G and H, and whether PID is also a slot of
\* the root vary.
SchemaParams ==
  [mO : Cardinalities, mP : Cardinalities, hFirst : BOOLEAN, rootPID : BOOLEAN]

SchemaOf(p) ==
  [ROOT |-> <<Slot("MSH", "Segment", 1)>>
            \o (IF p.hFirst
                  THEN <<Slot("H", "Group", 1), Slot("G", "Group", -1)>>
                  ELSE <<Slot("G", "Group", -1), Slot("H", "Group", 1)>>)
            \o (IF p.rootPID THEN <<Slot("PID", "Segment", 1)>> ELSE <<>>),
   G    |-> <<Slot("OBX", "Segment", p.mO), Slot("PID", "Segment", p.mP)>>,
   H    |-> <<Slot("K", "Group", 1)>>,
   K    |-> <<Slot("PID", "Segment", 1)>>]

VARIABLES
  schema,      \* the grammar: structure name -> ordered slots
  segs,        \* children: the names of the decoded segments, in input order
  ci,          \* the position of c in children (0 before the first)
  pc,          \* where create_groups is: for, loop, call, after, done, error
  found,       \* create_groups' found
  x,           \* create_groups' x
  n,           \* len(search_data['structures']) as xrange read it
  parents,     \* search_data['parents']: node ids, 0 is the message
  structures,  \* search_data['structures']
  indexes,     \* search_data['indexes']
  calls,       \* the activations of _find_group, innermost last
  ret,         \* the value the last finished _find_group returned
  kids,        \* node id -> its children, in order
  gname,       \* the name of every Group constructed, by id
  gparent,     \* group.parent of every Group constructed (-1: None)
  sparent,     \* the parent of every segment (-1: None)
  startStructs,\* history: search_data['structures'] when c was taken
  startParents,\* history: search_data['parents'] when c was taken
  startId,     \* history: the number of Groups constructed when c was taken
  pushed,      \* history: search_data as it was when each Group was constructed
  content,     \* get_message_info: the text it is given
  info,        \* get_message_info: what it returned or raised
  call,        \* the decomposition function called, with its arguments
  out          \* what the decomposition function returned or raised

vars == <<schema, segs, ci, pc, found, x, n, parents, structures, indexes,
          calls, ret, kids, gname, gparent, sparent,
          startStructs, startParents, startId, pushed, content, info, call, out>>

treeVars == <<kids, gname, gparent, sparent>>
stackVars == <<parents, structures, indexes>>
loopVars == <<ci, found, x, n>>
histVars == <<startStructs, startParents, startId, pushed>>
inputVars == <<schema, segs>>
infoVars == <<content, info>>
parseVars == <<call, out>>
groupVars == <<schema, segs, ci, pc, found, x, n, parents, structures, indexes,
               calls, ret, kids, gname, gparent, sparent,
               startStructs, startParents, startId, pushed>>

(***************************************************************************)
(* Reading a structure.                                                    *)
(***************************************************************************)
\* structure['structure_by_name'].keys()
Keys(structure) == [i \in 1..Len(structure) |-> structure[i].name]

\* structure['structure_by_name'].keys().index(name), -1 for ValueError
KeyIndex(structure, name) == ListIndex(Keys(structure), name)

\* structure['repetitions'][name][1]
MaxOf(structure, name) == structure[KeyIndex(structure, name) + 1].max

\* [k for k, v in structure_by_name.iteritems() if v['cls'] == Group]
GroupsOf(structure) ==
  LET names == Keys(structure)
      grp == {structure[i].name : i \in {j \in 1..Len(structure) : structure[j].cls = "Group"}}
  IN  SelectSeq2(names, grp)

\* ElementFinder.get_structure(group): the structure the schema gives the name
GetStructure(name) == schema[name]

SegName == segs[ci]

\* the activation record of one call of _find_group
Activation(p, si, cur, st, gs, g) ==
  [pc |-> p, search_index |-> si, current_index |-> cur, structure |-> st,
   groups |-> gs, group |-> g]

EnterActivation == Activation("enter", -1, -1, <<>>, <<>>, -1)

Top == Last(calls)

SetTop(a) == [calls EXCEPT ![Len(calls)] = a]

(***************************************************************************)
(* create_groups                                                           *)
(***************************************************************************)
GroupsStart ==
  /\ schema \in {SchemaOf(p) : p \in SchemaParams}
  /\ segs \in SeqsUpTo(SegmentNames, MaxSegs)
  /\ ci = 0
  /\ pc = "for"
  /\ found = -1
  /\ x = 0
  /\ n = 0
  /\ parents = <<0>>
  /\ indexes = <<-1>>
  /\ structures = <<schema["ROOT"]>>
  /\ calls = <<>>
  /\ ret = -1
  /\ kids = [k \in {0} |-> <<>>]
  /\ gname = <<>>
  /\ gparent = <<>>
  /\ sparent = [i \in 1..Len(segs) |-> -1]
  /\ startStructs = <<>>
  /\ startParents = <<>>
  /\ startId = 0
  /\ pushed = <<>>

\* for c in children: found = -1; for x in xrange(len(structures)):
ForNext ==
  /\ pc = "for"
  /\ ci < Len(segs)
  /\ ci' = ci + 1
  /\ found' = -1
  /\ x' = 0
  /\ n' = Len(structures)
  /\ pc' = "loop"
  /\ startStructs' = structures
  /\ startParents' = parents
  /\ startId' = Len(gname)
  /\ UNCHANGED <<infoVars, parseVars, inputVars, stackVars, calls, ret, treeVars, pushed>>

\* the children are exhausted: create_groups returns
ForDone ==
  /\ pc = "for"
  /\ ci = Len(segs)
  /\ pc' = "done"
  /\ UNCHANGED <<infoVars, parseVars, inputVars, loopVars, stackVars, calls, ret, treeVars, histVars>>

\* found = _find_group(c, search_data, validation_level): the call
LoopCall ==
  /\ pc = "loop"
  /\ x < n
  /\ calls' = <<EnterActivation>>
  /\ pc' = "call"
  /\ UNCHANGED <<infoVars, parseVars, inputVars, loopVars, stackVars, ret, treeVars, histVars>>

\* xrange is exhausted without a break
LoopExhausted ==
  /\ pc = "loop"
  /\ x >= n
  /\ pc' = "after"
  /\ UNCHANGED <<infoVars, parseVars, inputVars, loopVars, stackVars, calls, ret, treeVars, histVars>>

\* _go_back(search_data): three pops; popping an empty list raises IndexError
GoBackOk == Len(parents) > 0

GoBack ==
  /\ parents' = Front(parents)
  /\ structures' = Front(structures)
  /\ indexes' = Front(indexes)

\* the call returned: if found == -1: _go_back(search_data) else: break
LoopReturn ==
  /\ pc = "call"
  /\ calls = <<>>
  /\ found' = ret
  /\ IF ret = -1
       THEN IF GoBackOk
              THEN /\ GoBack
                   /\ x' = x + 1
                   /\ pc' = "loop"
              ELSE /\ pc' = "error"
                   /\ UNCHANGED <<stackVars, x>>
       ELSE /\ pc' = "after"
            /\ UNCHANGED <<stackVars, x>>
  /\ UNCHANGED <<infoVars, parseVars, inputVars, ci, n, calls, ret, treeVars, histVars>>

\* a variant that forgets the fallback: the segment no frame placed is dropped
AttachToMessageDropped ==
  /\ pc = "after"
  /\ pc' = "for"
  /\ UNCHANGED <<infoVars, parseVars, inputVars, loopVars, stackVars, calls, ret, treeVars, histVars>>

\* if found == -1: message.add(c)
AttachToMessage ==
  /\ pc = "after"
  /\ IF found = -1
       THEN /\ kids' = [kids EXCEPT ![0] = Append(@, [k |-> "seg", i |-> ci])]
            /\ sparent' = [sparent EXCEPT ![ci] = 0]
       ELSE UNCHANGED <<kids, sparent>>
  /\ pc' = "for"
  /\ UNCHANGED <<infoVars, parseVars, inputVars, loopVars, stackVars, calls, ret, gname, gparent, histVars>>

(***************************************************************************)
(* _find_group, one action per step of its body.  An activation is at      *)
(* "enter" (called), "else" (the name is a key of the structure), "groups" *)
(* (trying the group candidates), "wait" (a candidate's recursive call is  *)
(* running or has returned) or "tail" (the call of line 579).              *)
(***************************************************************************)
InFind == pc = "call" /\ calls # <<>>

\* current_index = indexes[-1]; structure = structures[-1];
\* search_index = keys().index(segment.name), or the groups of the structure
FindEnter ==
  /\ InFind
  /\ Top.pc = "enter"
  /\ IF Len(indexes) = 0
       THEN /\ pc' = "error"
            /\ UNCHANGED calls
       ELSE LET structure == Last(structures)
                si == KeyIndex(structure, SegName)
            IN  /\ calls' = SetTop(
                     IF si = -1
                       THEN Activation("groups", -1, Last(indexes), structure,
                                       GroupsOf(structure), -1)
                       ELSE Activation("else", si, Last(indexes), structure, <<>>, -1))
                /\ pc' = pc
  /\ UNCHANGED <<infoVars, parseVars, inputVars, loopVars, stackVars, ret, treeVars, histVars>>

\* a variant with < for <=: the slot just filled is not seen as filled
MustRepeatStrict(a) ==
  /\ a.search_index < a.current_index
  /\ MaxOf(a.structure, SegName) = 1

\* if search_index <= current_index and repetitions[segment.name][1] == 1
MustRepeat(a) ==
  /\ a.search_index <= a.current_index
  /\ MaxOf(a.structure, SegName) = 1

\* _go_back(search_data); return _find_group(segment, search_data, ...)
FindRepeat ==
  /\ InFind
  /\ Top.pc = "else"
  /\ MustRepeat(Top)
  /\ GoBack
  /\ calls' = Append(SetTop([Top EXCEPT !.pc = "tail"]), EnterActivation)
  /\ UNCHANGED <<infoVars, parseVars, inputVars, loopVars, pc, ret, treeVars, histVars>>

\* the call of line 579 returned: return its value
FindTailReturn ==
  /\ InFind
  /\ Top.pc = "tail"
  /\ calls' = Front(calls)
  /\ UNCHANGED <<infoVars, parseVars, inputVars, loopVars, pc, stackVars, ret, treeVars, histVars>>

\* a variant that puts the segment before the children the parent has
FindAttachFirst ==
  /\ InFind
  /\ Top.pc = "else"
  /\ ~MustRepeat(Top)
  /\ indexes' = [indexes EXCEPT ![Len(indexes)] = Top.search_index]
  /\ kids' = [kids EXCEPT ![Last(parents)] = <<[k |-> "seg", i |-> ci]>> \o @]
  /\ sparent' = [sparent EXCEPT ![ci] = Last(parents)]
  /\ ret' = Top.search_index
  /\ calls' = Front(calls)
  /\ UNCHANGED <<infoVars, parseVars, inputVars, loopVars, pc, parents, structures, gname, gparent, histVars>>

\* indexes[-1] = search_index; parents[-1].add(segment); return search_index
FindAttach ==
  /\ InFind
  /\ Top.pc = "else"
  /\ ~MustRepeat(Top)
  /\ indexes' = [indexes EXCEPT ![Len(indexes)] = Top.search_index]
  /\ kids' = [kids EXCEPT ![Last(parents)] = Append(@, [k |-> "seg", i |-> ci])]
  /\ sparent' = [sparent EXCEPT ![ci] = Last(parents)]
  /\ ret' = Top.search_index
  /\ calls' = Front(calls)
  /\ UNCHANGED <<infoVars, parseVars, inputVars, loopVars, pc, parents, structures, gname, gparent, histVars>>

\* a variant that attaches the Group to its parent as soon as it is constructed
FindTryGroupAttached ==
  /\ InFind
  /\ Top.pc = "groups"
  /\ Top.groups # <<>>
  /\ LET g == Head(Top.groups)
         id == Len(gname) + 1
     IN  /\ gname' = Append(gname, g)
         /\ gparent' = Append(gparent, Last(parents))
         /\ kids' = [k \in 0..id |->
                       IF k = id THEN <<>>
                       ELSE IF k = Last(parents) THEN Append(kids[k], [k |-> "grp", i |-> id])
                       ELSE kids[k]]
         /\ structures' = Append(structures, GetStructure(g))
         /\ parents' = Append(parents, id)
         /\ indexes' = Append(indexes, -1)
         /\ calls' = Append(SetTop([Top EXCEPT !.pc = "wait", !.group = id]),
                            EnterActivation)
         /\ pushed' = Append(pushed, [parents |-> parents, structures |-> structures,
                                      indexes |-> indexes])
  /\ UNCHANGED <<infoVars, parseVars, inputVars, loopVars, pc, ret, sparent,
                 startStructs, startParents, startId>>

\* for g in groups: group = Group(g); push its frame; _find_group(...)
FindTryGroup ==
  /\ InFind
  /\ Top.pc = "groups"
  /\ Top.groups # <<>>
  /\ LET g == Head(Top.groups)
         id == Len(gname) + 1
     IN  /\ gname' = Append(gname, g)
         /\ gparent' = Append(gparent, -1)
         /\ kids' = [k \in 0..id |-> IF k = id THEN <<>> ELSE kids[k]]
         /\ structures' = Append(structures, GetStructure(g))
         /\ parents' = Append(parents, id)
         /\ indexes' = Append(indexes, -1)
         /\ calls' = Append(SetTop([Top EXCEPT !.pc = "wait", !.group = id]),
                            EnterActivation)
         /\ pushed' = Append(pushed, [parents |-> parents, structures |-> structures,
                                      indexes |-> indexes])
  /\ UNCHANGED <<infoVars, parseVars, inputVars, loopVars, pc, ret, sparent,
                 startStructs, startParents, startId>>

\* a variant that records the index but never sets group.parent
FindGroupFoundDetached ==
  /\ InFind
  /\ Top.pc = "wait"
  /\ ret > -1
  /\ LET find_parent == ListIndex(parents, Top.group) - 1
         search_index == KeyIndex(Top.structure, gname[Top.group])
     IN  /\ indexes' = [indexes EXCEPT ![PyPos(indexes, find_parent)] = search_index]
         /\ ret' = search_index
         /\ calls' = Front(calls)
  /\ UNCHANGED <<infoVars, parseVars, inputVars, loopVars, pc, parents, structures, treeVars, histVars>>

\* found_index > -1: group.parent = parents[find_parent];
\* indexes[find_parent] = keys().index(g); break; return search_index
FindGroupFound ==
  /\ InFind
  /\ Top.pc = "wait"
  /\ ret > -1
  /\ LET at == ListIndex(parents, Top.group)
         find_parent == at - 1
     IN  IF at = -1
           THEN /\ pc' = "error"
                /\ UNCHANGED <<calls, ret, indexes, kids, gparent>>
           ELSE LET parent == PyAt(parents, find_parent)
                    search_index == KeyIndex(Top.structure, gname[Top.group])
                IN  /\ gparent' = [gparent EXCEPT ![Top.group] = parent]
                    /\ kids' = [kids EXCEPT ![parent] =
                                  Append(@, [k |-> "grp", i |-> Top.group])]
                    /\ indexes' = [indexes EXCEPT ![PyPos(indexes, find_parent)] = search_index]
                    /\ ret' = search_index
                    /\ calls' = Front(calls)
                    /\ pc' = pc
  /\ UNCHANGED <<infoVars, parseVars, inputVars, loopVars, parents, structures, gname, sparent, histVars>>

\* a variant that leaves the frame of the failed candidate on the stack
FindGroupNotFoundKept ==
  /\ InFind
  /\ Top.pc = "wait"
  /\ ret = -1
  /\ calls' = SetTop([Top EXCEPT !.pc = "groups", !.groups = Tail(@)])
  /\ UNCHANGED <<infoVars, parseVars, inputVars, loopVars, pc, stackVars, ret, treeVars, histVars>>

\* found_index == -1: _go_back(search_data), and on to the next candidate
FindGroupNotFound ==
  /\ InFind
  /\ Top.pc = "wait"
  /\ ret = -1
  /\ IF GoBackOk
       THEN /\ GoBack
            /\ calls' = SetTop([Top EXCEPT !.pc = "groups", !.groups = Tail(@)])
            /\ pc' = pc
       ELSE /\ pc' = "error"
            /\ UNCHANGED <<calls, stackVars>>
  /\ UNCHANGED <<infoVars, parseVars, inputVars, loopVars, ret, treeVars, histVars>>

\* the candidates are exhausted: return search_index, which is still -1
FindGroupsDone ==
  /\ InFind
  /\ Top.pc = "groups"
  /\ Top.groups = <<>>
  /\ ret' = Top.search_index
  /\ calls' = Front(calls)
  /\ UNCHANGED <<infoVars, parseVars, inputVars, loopVars, pc, stackVars, treeVars, histVars>>

\* get_message_info and the decomposition functions are not running
InfoIdle == content = <<>> /\ info = [status |-> "idle"]

ParseIdle == call = [fn |-> "none"] /\ out = [status |-> "idle"]

InitGroups == GroupsStart /\ InfoIdle /\ ParseIdle

NextGroups ==
  \/ ForNext
  \/ ForDone
  \/ LoopCall
  \/ LoopExhausted
  \/ LoopReturn
  \/ AttachToMessage
  \/ FindEnter
  \/ FindRepeat
  \/ FindTailReturn
  \/ FindAttach
  \/ FindTryGroup
  \/ FindGroupFound
  \/ FindGroupNotFound
  \/ FindGroupsDone

Spec == InitGroups /\ [][NextGroups]_vars

(***************************************************************************)
(* Reading the tree.                                                       *)
(***************************************************************************)
Nodes == 0..Len(gname)

SegRef(i) == [k |-> "seg", i |-> i]

GrpRef(g) == [k |-> "grp", i |-> g]

\* how many times a child is held, over every node constructed
Occurrences(ref) ==
  Cardinality(UNION {{<<nd, p>> : p \in {q \in 1..Len(kids[nd]) : kids[nd][q] = ref}} :
                       nd \in Nodes})

Holds(nd, ref) == \E p \in 1..Len(kids[nd]) : kids[nd][p] = ref

\* the nodes reachable from the message through children lists
RECURSIVE Closure(_)
Closure(S) ==
  LET more == S \cup {g \in Nodes : \E nd \in S : Holds(nd, GrpRef(g))}
  IN  IF more = S THEN S ELSE Closure(more)

TreeNodes == Closure({0})

StructOf(nd) == IF nd = 0 THEN schema["ROOT"] ELSE schema[gname[nd]]

ChildName(ref) == IF ref.k = "seg" THEN segs[ref.i] ELSE gname[ref.i]

ChildCls(ref) == IF ref.k = "seg" THEN "Segment" ELSE "Group"

\* whether a search that starts at a fresh frame of the structure places name
RECURSIVE CanPlace(_, _)
CanPlace(structure, name) ==
  \/ KeyIndex(structure, name) # -1
  \/ \E i \in 1..Len(structure) :
       structure[i].cls = "Group" /\ CanPlace(schema[structure[i].name], name)

\* the segment being processed can be placed at none of the frames that were
\* open when it was taken
Unplaceable ==
  /\ ci >= 1
  /\ \A k \in 1..Len(startStructs) : ~CanPlace(startStructs[k], segs[ci])

Settled == pc \in {"for", "done"}

(***************************************************************************)
(* C1: when create_groups finishes, every input segment is held exactly    *)
(* once, by a node reachable from the message, and every reachable group   *)
(* is held exactly once too: nothing is dropped and nothing is duplicated. *)
(***************************************************************************)
C1_EverySegmentOnce ==
  pc = "done" =>
    /\ \A i \in 1..Len(segs) :
         /\ Occurrences(SegRef(i)) = 1
         /\ \E nd \in TreeNodes : Holds(nd, SegRef(i)) /\ sparent[i] = nd
    /\ \A g \in TreeNodes \ {0} : Occurrences(GrpRef(g)) = 1

C1_Witness ==
  /\ pc = "done"
  /\ Len(segs) = MaxSegs
  /\ \E i, j \in 1..Len(segs) :
       /\ sparent[i] = 0
       /\ sparent[j] > 0
       /\ gname[sparent[j]] = "K"

(***************************************************************************)
(* C2: after any segment has been processed, no node holds two children    *)
(* in one slot whose maximum cardinality is 1.                             *)
(***************************************************************************)
InSlot(nd, slot) ==
  {p \in 1..Len(kids[nd]) :
     ChildName(kids[nd][p]) = slot.name /\ ChildCls(kids[nd][p]) = slot.cls}

C2_NoDoubleOccupancy ==
  Settled =>
    \A nd \in TreeNodes : \A s \in 1..Len(StructOf(nd)) :
      StructOf(nd)[s].max = 1 => Cardinality(InSlot(nd, StructOf(nd)[s])) <= 1

(***************************************************************************)
(* C3: two consecutive segments of one name, a non-repeatable slot of a    *)
(* repeatable group, the first placed in an instance that is the innermost *)
(* open frame: the second goes to a new instance of that group under the   *)
(* same parent, and each instance holds exactly one of the two.            *)
(***************************************************************************)
C3_Case ==
  /\ pc = "for"
  /\ ci >= 2
  /\ segs[ci] = segs[ci - 1]
  /\ sparent[ci - 1] > 0
  /\ startParents # <<>>
  /\ Last(startParents) = sparent[ci - 1]
  /\ LET g1 == sparent[ci - 1]
     IN  /\ MaxOf(StructOf(g1), segs[ci]) = 1
         /\ gparent[g1] >= 0
         /\ MaxOf(StructOf(gparent[g1]), gname[g1]) # 1

C3_Split ==
  LET g1 == sparent[ci - 1]
      g2 == sparent[ci]
  IN  /\ g2 > startId
      /\ g2 # g1
      /\ gname[g2] = gname[g1]
      /\ gparent[g2] = gparent[g1]
      /\ Holds(gparent[g1], GrpRef(g1))
      /\ Holds(gparent[g1], GrpRef(g2))
      /\ Holds(g1, SegRef(ci - 1)) /\ ~Holds(g1, SegRef(ci))
      /\ Holds(g2, SegRef(ci)) /\ ~Holds(g2, SegRef(ci - 1))

C3_FirstCandidate ==
  LET g1 == sparent[ci - 1]
      pst == StructOf(gparent[g1])
      at == KeyIndex(pst, gname[g1]) + 1
  IN  /\ KeyIndex(pst, segs[ci]) = -1
      /\ \A i \in 1..(at - 1) :
           pst[i].cls = "Group" => ~CanPlace(schema[pst[i].name], segs[ci])

C4_NeverRaises == pc # "error"

(***************************************************************************)
(* C5: a segment that no open frame can place, directly or through its     *)
(* groups, becomes a child of the message itself, and no Group constructed *)
(* while it was searched for is attached anywhere or holds anything.       *)
(***************************************************************************)
C5_UnplaceableToRoot ==
  Unplaceable =>
    /\ pc # "error"
    /\ Settled =>
         /\ sparent[ci] = 0
         /\ kids[0] # <<>>
         /\ Last(kids[0]) = SegRef(ci)
         /\ Occurrences(SegRef(ci)) = 1
         /\ \A g \in (startId + 1)..Len(gname) :
              /\ gparent[g] = -1
              /\ kids[g] = <<>>
              /\ Occurrences(GrpRef(g)) = 0

C5_Witness ==
  /\ Unplaceable
  /\ pc = "for"
  /\ Len(startStructs) >= 2
  /\ Len(gname) > startId
  /\ sparent[ci] = 0

(***************************************************************************)
(* Text: a str is the sequence of its characters.                          *)
(***************************************************************************)
CR == "\r"

\* what \S refuses and str.strip() removes
Whitespace == {" ", "\t", "\n", CR}

\* None
None == <<"None">>

\* str.split(sep) for a one-character sep: no run of separators is collapsed
RECURSIVE Split(_, _)
Split(text, sep) ==
  LET at == ListIndex(text, sep)
  IN  IF at = -1 THEN <<text>>
      ELSE <<SubSeq(text, 1, at)>> \o Split(SubSeq(text, at + 2, Len(text)), sep)

\* content.split("\r", 1)[0]
FirstSegment(text) ==
  LET at == ListIndex(text, CR)
  IN  IF at = -1 THEN text ELSE SubSeq(text, 1, at)

RECURSIVE LStrip(_, _)
LStrip(text, chars) ==
  IF text # <<>> /\ Head(text) \in chars THEN LStrip(Tail(text), chars) ELSE text

RECURSIVE RStrip(_, _)
RStrip(text, chars) ==
  IF text # <<>> /\ Last(text) \in chars THEN RStrip(Front(text), chars) ELSE text

\* str.strip()
Strip(text) == RStrip(LStrip(text, Whitespace), Whitespace)

\* str.strip("\r")
StripCR(text) == RStrip(LStrip(text, {CR}), {CR})

RECURSIVE Join(_, _)
Join(parts, sep) ==
  IF parts = <<>> THEN <<>>
  ELSE IF Len(parts) = 1 THEN parts[1]
  ELSE parts[1] \o <<sep>> \o Join(Tail(parts), sep)

(***************************************************************************)
(* get_message_info                                                        *)
(***************************************************************************)
\* hl7apy.consts.N_SEPS, also the number of names seps is unpacked into
N_SEPS == 4

\* regex.match(content) for "^MSH(?P<field_sep>\S){1}"
RegexMatches(text) ==
  /\ Len(text) >= 4
  /\ SubSeq(text, 1, 3) = <<"M", "S", "H">>
  /\ text[4] \notin Whitespace

\* a variant that never finds a duplicate
NoDuplicates(seps) == FALSE

\* len(seps) > len(set(seps))
HasDuplicates(seps) == Len(seps) > Cardinality({seps[i] : i \in 1..Len(seps)})

\* the lookup of MSH.9: the third component, else the first two joined by "_"
MessageStructure(fields, comp_sep) ==
  IF Len(fields) < 9 THEN None
  ELSE LET msh_9 == Strip(fields[9])
           message_type == Split(msh_9, comp_sep)
       IN  IF Len(message_type) >= 3 THEN message_type[3]
           ELSE IF Len(message_type) >= 2
                  THEN message_type[1] \o <<"_">> \o message_type[2]
           ELSE None

\* the lookup of MSH.12: its first component
Version(fields, comp_sep) ==
  IF Len(fields) < 12 THEN None
  ELSE LET msh_12 == Strip(fields[12])
           version_id == Split(msh_12, comp_sep)
       IN  IF Len(version_id) >= 1 THEN version_id[1] ELSE None

Raised(error, message) == [status |-> error, message |-> message]

GetMessageInfoOf(text) ==
  IF ~RegexMatches(text) THEN Raised("ParserError", "Invalid message")
  ELSE LET field_sep == text[4]
           msh == FirstSegment(text)
           fields == Split(msh, field_sep)
           seps == fields[2]
       IN  IF HasDuplicates(seps)
             THEN Raised("InvalidEncodingChars", "Found duplicate encoding chars")
           ELSE IF Len(seps) # 4
             THEN IF Len(seps) < N_SEPS
                    THEN Raised("InvalidEncodingChars", "Missing required encoding chars")
                    ELSE Raised("InvalidEncodingChars", "Found n encoding chars")
           ELSE [status |-> "ok",
                 encoding_chars |->
                   [FIELD |-> field_sep, COMPONENT |-> seps[1], SUBCOMPONENT |-> seps[4],
                    REPETITION |-> seps[2], ESCAPE |-> seps[3], SEGMENT |-> CR, GROUP |-> CR],
                 message_structure |-> MessageStructure(fields, seps[1]),
                 version |-> Version(fields, seps[1])]

\* The texts given: every second field over the four usual encoding
\* characters behind several openings, and, behind a valid opening, control
\* segments of every length whose fields 9 and 12 vary.
EncAlphabet == {"^", "~", "\\", "&"}

Openings ==
  {<<"M", "S", "H", "|">>, <<"M", "S", "H", "H">>, <<"M", "S", "H", " ">>,
   <<"P", "I", "D", "|">>}

Endings(sep) == {<<>>, <<sep, "a">>, <<CR, "a", sep, "a">>}

EncTexts ==
  {o \o e \o t : o \in Openings, e \in SeqsUpTo(EncAlphabet, MaxEnc),
                 t \in Endings("|") \cup Endings("H")}

FieldAlphabet == {"A", "^", " "}

\* the fields 3..k of a control segment, the 9th and the 12th as given
RECURSIVE LaterFields(_, _, _)
LaterFields(k, f9, f12) ==
  IF k < 3 THEN <<>>
  ELSE Append(LaterFields(k - 1, f9, f12),
              IF k = 9 THEN f9 ELSE IF k = 12 THEN f12 ELSE <<"a">>)

MshText(k, f9, f12) ==
  Join(<<<<"M", "S", "H">>, <<"^", "~", "\\", "&">>>> \o LaterFields(k, f9, f12), "|")

MshTexts ==
  {MshText(k, f9, f12) :
     k \in 2..MaxMshFields,
     f9 \in SeqsUpTo(FieldAlphabet, MaxFieldLen),
     f12 \in SeqsUpTo(FieldAlphabet, MaxFieldLen)}

InfoTexts == EncTexts \cup MshTexts \cup {<<"M", "S", "H">>}

InfoStart ==
  /\ content \in InfoTexts
  /\ info = [status |-> "idle"]

GetMessageInfo ==
  /\ info.status = "idle"
  /\ info' = GetMessageInfoOf(content)
  /\ UNCHANGED <<groupVars, parseVars, content>>

\* create_groups is not running
GroupsIdle ==
  /\ schema = <<>> /\ segs = <<>> /\ ci = 0 /\ pc = "idle" /\ found = -1
  /\ x = 0 /\ n = 0 /\ parents = <<>> /\ structures = <<>> /\ indexes = <<>>
  /\ calls = <<>> /\ ret = -1 /\ kids = <<>> /\ gname = <<>> /\ gparent = <<>>
  /\ sparent = <<>> /\ startStructs = <<>> /\ startParents = <<>> /\ startId = 0
  /\ pushed = <<>>

InitInfo == InfoStart /\ GroupsIdle /\ ParseIdle

NextInfo == GetMessageInfo

SpecInfo == InitInfo /\ [][NextInfo]_vars

\* what the claims read: the control segment and its second field, found by
\* the positions of the separator
ControlSegmentOf(text) ==
  LET crs == {i \in 1..Len(text) : text[i] = CR}
  IN  IF crs = {} THEN text
      ELSE SubSeq(text, 1, (CHOOSE i \in crs : \A j \in crs : i <= j) - 1)

SeparatorsIn(text) ==
  {i \in 1..Len(ControlSegmentOf(text)) : ControlSegmentOf(text)[i] = text[4]}

\* the k-th separator position of the control segment, or one past its end
NthSeparator(text, k) ==
  LET P == SeparatorsIn(text)
      upto(i) == Cardinality({j \in P : j <= i})
  IN  IF Cardinality(P) < k THEN Len(ControlSegmentOf(text)) + 1
      ELSE CHOOSE i \in P : upto(i) = k

\* the k-th field of the control segment (the tag being the first)
FieldOf(text, k) ==
  SubSeq(ControlSegmentOf(text), NthSeparator(text, k - 1) + 1, NthSeparator(text, k) - 1)

FieldCount(text) == Cardinality(SeparatorsIn(text)) + 1

(***************************************************************************)
(* C6: for a text that opens with MSH and a non-whitespace character,      *)
(* get_message_info raises InvalidEncodingChars exactly when the second    *)
(* field of the control segment has a duplicate character or is not four   *)
(* characters long; otherwise it succeeds and the four characters are, in  *)
(* order, the component, repetition, escape and sub-component separators.  *)
(***************************************************************************)
C6_EncodingChars ==
  (info.status # "idle" /\ RegexMatches(content)) =>
    LET f2 == FieldOf(content, 2)
        distinct == Cardinality({f2[i] : i \in 1..Len(f2)}) = Len(f2)
        bad == ~distinct \/ Len(f2) < 4 \/ Len(f2) > 4
    IN  /\ info.status = "InvalidEncodingChars" <=> bad
        /\ ~bad =>
             /\ info.status = "ok"
             /\ info.encoding_chars.FIELD = content[4]
             /\ info.encoding_chars.COMPONENT = f2[1]
             /\ info.encoding_chars.REPETITION = f2[2]
             /\ info.encoding_chars.ESCAPE = f2[3]
             /\ info.encoding_chars.SUBCOMPONENT = f2[4]

C6_Witness ==
  /\ info.status = "ok"
  /\ content[4] = "|"
  /\ Len(content) > 8
  /\ info.encoding_chars.COMPONENT = "&"
  /\ info.encoding_chars.REPETITION = "\\"
  /\ info.encoding_chars.ESCAPE = "^"
  /\ info.encoding_chars.SUBCOMPONENT = "~"

(***************************************************************************)
(* C9: the structure identifier and the version are absent (None) when     *)
(* field 9, respectively field 12, is missing, empty or lacks the needed   *)
(* component, and neither is ever the empty string.                        *)
(***************************************************************************)
C9_AbsentNeverEmpty ==
  info.status = "ok" =>
    LET comp == info.encoding_chars.COMPONENT
        f9 == FieldOf(content, 9)
        f12 == FieldOf(content, 12)
    IN  /\ (FieldCount(content) < 9 \/ f9 = <<>> \/ Len(Split(f9, comp)) < 2)
             => info.message_structure = None
        /\ (FieldCount(content) < 12 \/ f12 = <<>>) => info.version = None
        /\ info.message_structure # <<>>
        /\ info.version # <<>>

(***************************************************************************)
(* The decomposition: parse_segment, parse_fields, parse_field,            *)
(* parse_components, parse_component, parse_subcomponents.                 *)
(*                                                                         *)
(* A name is <<prefix, position>>, the code's "prefix_position"; <<>> is   *)
(* no name.  A datatype is a string, "None" standing for None.             *)
(***************************************************************************)
NoName == <<>>

PositionalName(prefix, position) == <<prefix, position>>

\* the encoding characters the functions are given
DefaultEnc ==
  [FIELD |-> "|", COMPONENT |-> "^", SUBCOMPONENT |-> "&", REPETITION |-> "~",
   ESCAPE |-> "\\", SEGMENT |-> CR, GROUP |-> CR]

\* Validator.is_strict, Validator.is_quiet
IsStrict(level) == level = "strict"

IsQuiet(level) == level = "quiet"

\* is_base_datatype(datatype, version)
IsBaseDatatype(datatype) == datatype \in {"ST"}

\* What the schema is asked.  Field(name) knows the first declared positions
\* of the segment, each of the datatype ftype (MSH_1 and MSH_2 are ST);
\* any other name raises InvalidName.
FieldKnown(name, sch) == name # NoName /\ name[2] <= sch.declared

FieldDatatype(name, sch) ==
  IF name[1] = "MSH" /\ name[2] <= 2 THEN "ST" ELSE sch.ftype

\* Component(name, datatype): a complex datatype declares two components,
\* the first an ST and the second an HD; VARIES_n is always accepted
ComponentKnown(name) == name = NoName \/ name[1] = "VARIES" \/ name[2] <= 2

ComponentDatatype(name, datatype) ==
  IF name = NoName THEN datatype
  ELSE IF name[1] = "VARIES" THEN "varies"
  ELSE IF name[2] = 1 THEN "ST"
  ELSE "HD"

InvalidName == [cls |-> "InvalidName"]

IsError(nodes) == \E i \in 1..Len(nodes) : nodes[i] = InvalidName

RECURSIVE Flatten(_)
Flatten(lists) == IF lists = <<>> THEN <<>> ELSE Head(lists) \o Flatten(Tail(lists))

\* SubComponent(name=name, datatype=datatype, value=text)
ParseSubcomponentOf(text, name, datatype) ==
  [cls |-> "SubComponent", name |-> name, datatype |-> datatype, value |-> text]

\* one turn of the loop of parse_subcomponents: what it appends
SubcomponentSlot(index, subcomponent, component_datatype) ==
  LET unnamed == IsBaseDatatype(component_datatype) \/ component_datatype = "None"
      subcomponent_name ==
        IF unnamed THEN NoName ELSE PositionalName(component_datatype, index + 1)
      subcomponent_datatype ==
        IF unnamed
          THEN (IF component_datatype # "None" THEN component_datatype ELSE "ST")
          ELSE "None"
  IN  IF Strip(subcomponent) # <<>> \/ subcomponent_name = NoName
        THEN <<ParseSubcomponentOf(subcomponent, subcomponent_name, subcomponent_datatype)>>
        ELSE <<>>

SubcomponentSlots(text, component_datatype, enc) ==
  LET parts == Split(text, enc.SUBCOMPONENT)
  IN  [i \in 1..Len(parts) |-> SubcomponentSlot(i - 1, parts[i], component_datatype)]

ParseSubcomponentsOf(text, component_datatype, enc) ==
  Flatten(SubcomponentSlots(text, component_datatype, enc))

\* parse_component: the component, or InvalidName under the strict policy
ParseComponentOf(text, name, datatype, enc, level) ==
  IF ~ComponentKnown(name) /\ IsStrict(level) THEN InvalidName
  ELSE LET made == IF ComponentKnown(name)
                     THEN [name |-> name, datatype |-> ComponentDatatype(name, datatype)]
                     ELSE [name |-> NoName, datatype |-> "None"]
           children == ParseSubcomponentsOf(text, made.datatype, enc)
           cleared == IsQuiet(level) /\ IsBaseDatatype(made.datatype) /\ Len(children) > 1
       IN  [cls |-> "Component", name |-> made.name,
            datatype |-> IF cleared THEN "None" ELSE made.datatype,
            children |-> children]

\* the name and the datatype parse_components gives the component at index
ComponentName(index, field_datatype) ==
  IF IsBaseDatatype(field_datatype) THEN NoName
  ELSE IF field_datatype = "None" \/ field_datatype = "varies"
         THEN PositionalName("VARIES", index + 1)
  ELSE PositionalName(field_datatype, index + 1)

ComponentDatatypeGiven(field_datatype) ==
  IF IsBaseDatatype(field_datatype) THEN field_datatype ELSE "None"

\* a variant without the VARIES_ clause
KeepComponentNamedOnly(component, component_name) ==
  Strip(component) # <<>> \/ component_name = NoName

\* component.strip() or component_name is None or startswith("VARIES_")
KeepComponent(component, component_name) ==
  \/ Strip(component) # <<>>
  \/ component_name = NoName
  \/ component_name[1] = "VARIES"

\* one turn of the loop of parse_components: what it appends
ComponentSlot(index, component, field_datatype, enc, level) ==
  LET component_name == ComponentName(index, field_datatype)
  IN  IF KeepComponent(component, component_name)
        THEN <<ParseComponentOf(component, component_name,
                                ComponentDatatypeGiven(field_datatype), enc, level)>>
        ELSE <<>>

ComponentSlots(text, field_datatype, enc, level) ==
  LET parts == Split(text, enc.COMPONENT)
  IN  [i \in 1..Len(parts) |-> ComponentSlot(i - 1, parts[i], field_datatype, enc, level)]

ParseComponentsOf(text, field_datatype, enc, level) ==
  Flatten(ComponentSlots(text, field_datatype, enc, level))

\* parse_field
ParseFieldOf(text, name, enc, level, sch, force_varies) ==
  LET made == IF name = NoName THEN [name |-> NoName, datatype |-> "None"]
              ELSE IF FieldKnown(name, sch)
                THEN [name |-> name, datatype |-> FieldDatatype(name, sch)]
              ELSE IF force_varies THEN [name |-> name, datatype |-> "varies"]
              ELSE [name |-> NoName, datatype |-> "None"]
  IN  IF name \in {PositionalName("MSH", 1), PositionalName("MSH", 2)}
        THEN [cls |-> "Field", name |-> made.name, datatype |-> made.datatype,
              children |->
                <<[cls |-> "Component", name |-> NoName, datatype |-> "ST",
                   children |-> <<ParseSubcomponentOf(text, NoName, "ST")>>]>>]
        ELSE LET children == ParseComponentsOf(text, made.datatype, enc, level)
                 cleared == IsQuiet(level) /\ IsBaseDatatype(made.datatype)
                            /\ Len(children) > 1
             IN  IF IsError(children) THEN InvalidName
                 ELSE [cls |-> "Field", name |-> made.name,
                       datatype |-> IF cleared THEN "None" ELSE made.datatype,
                       children |-> children]

\* one turn of the loop of parse_fields: what it appends
FieldSlot(index, field, name_prefix, enc, level, sch, force_varies) ==
  LET name == IF name_prefix # "None" THEN PositionalName(name_prefix, index + 1)
              ELSE NoName
      reps == Split(field, enc.REPETITION)
  IN  IF Strip(field) # <<>> \/ name = NoName
        THEN IF name = PositionalName("MSH", 2)
               THEN <<ParseFieldOf(field, name, enc, level, sch, FALSE)>>
               ELSE [r \in 1..Len(reps) |->
                       ParseFieldOf(reps[r], name, enc, level, sch, force_varies)]
      ELSE IF name = PositionalName("MSH", 1)
        THEN <<ParseFieldOf(<<enc.FIELD>>, name, enc, level, sch, FALSE)>>
      ELSE <<>>

FieldSlots(text, name_prefix, enc, level, sch, force_varies) ==
  LET splitted_fields == Split(StripCR(text), enc.FIELD)
  IN  [i \in 1..Len(splitted_fields) |->
         FieldSlot(i - 1, splitted_fields[i], name_prefix, enc, level, sch, force_varies)]

ParseFieldsOf(text, name_prefix, enc, level, sch, force_varies) ==
  Flatten(FieldSlots(text, name_prefix, enc, level, sch, force_varies))

\* segment_name = text[:3]
SegmentNameOf(text) == SubSeq(text, 1, IF Len(text) < 3 THEN Len(text) ELSE 3)

\* a variant that cuts four characters off every segment
SegmentBodyCutFour(text) == SubSeq(text, 5, Len(text))

\* text[4:] if segment_name != 'MSH' else text[3:]
SegmentBody(text) ==
  IF SegmentNameOf(text) # <<"M", "S", "H">> THEN SubSeq(text, 5, Len(text))
  ELSE SubSeq(text, 4, Len(text))

\* the three letters as the prefix of the names
PrefixOf(segment_name) ==
  IF segment_name = <<"M", "S", "H">> THEN "MSH"
  ELSE IF segment_name = <<"P", "I", "D">> THEN "PID"
  ELSE "ZZZ"

Returned(value, slots) == [status |-> "ok", value |-> value, slots |-> slots]

Outcome(slots) ==
  IF IsError(Flatten(slots)) THEN Raised("InvalidName", "") ELSE Returned(Flatten(slots), slots)

(***************************************************************************)
(* The calls made: every text up to MaxBody characters, for parse_segment  *)
(* behind the opening of a control segment, of a segment the schema knows  *)
(* and of one it does not.                                                 *)
(***************************************************************************)
TextAlphabet == {"|", "^", "&", "~", "a", " "}

Bodies == SeqsUpTo(TextAlphabet, MaxBody)

Levels == {"strict", "quiet", "tolerant"}

\* the schema's answers: how many fields the segment declares, their datatype
Schemas(prefix) ==
  [declared : IF prefix = "MSH" THEN {3} ELSE IF prefix = "PID" THEN {2} ELSE {0},
   ftype : {"ST", "CX", "varies"}]

SegmentOpenings ==
  {<<"M", "S", "H", "|", "^", "~", "\\", "&">>, <<"P", "I", "D", "|">>,
   <<"Z", "Z", "Z", "|">>}

SegmentCalls ==
  UNION {[fn : {"parse_segment"}, text : {o \o b : b \in Bodies}, level : Levels,
          sch : Schemas(PrefixOf(SegmentNameOf(o))), force : BOOLEAN] :
         o \in SegmentOpenings}

FieldsCalls ==
  UNION {[fn : {"parse_fields"}, text : Bodies, prefix : {p}, level : Levels,
          sch : Schemas(p), force : {FALSE}] : p \in {"None", "PID", "MSH"}}

ComponentsCalls ==
  [fn : {"parse_components"}, text : Bodies, datatype : {"ST", "CX", "varies", "None"},
   level : Levels]

SubcomponentsCalls ==
  [fn : {"parse_subcomponents"}, text : Bodies, datatype : {"ST", "HD", "varies", "None"}]

ParseStart ==
  /\ call \in SegmentCalls \cup FieldsCalls \cup ComponentsCalls \cup SubcomponentsCalls
  /\ out = [status |-> "idle"]

Idle(fn) == out.status = "idle" /\ call.fn = fn

\* segment.children = parse_fields(text, segment_name, ..., allow_infinite_children)
ParseSegment ==
  /\ Idle("parse_segment")
  /\ out' = Outcome(FieldSlots(SegmentBody(call.text), PrefixOf(SegmentNameOf(call.text)),
                               DefaultEnc, call.level, call.sch, call.force))
  /\ UNCHANGED <<groupVars, infoVars, call>>

ParseFields ==
  /\ Idle("parse_fields")
  /\ out' = Outcome(FieldSlots(call.text, call.prefix, DefaultEnc, call.level,
                               call.sch, call.force))
  /\ UNCHANGED <<groupVars, infoVars, call>>

ParseComponents ==
  /\ Idle("parse_components")
  /\ out' = Outcome(ComponentSlots(call.text, call.datatype, DefaultEnc, call.level))
  /\ UNCHANGED <<groupVars, infoVars, call>>

ParseSubcomponents ==
  /\ Idle("parse_subcomponents")
  /\ out' = Outcome(SubcomponentSlots(call.text, call.datatype, DefaultEnc))
  /\ UNCHANGED <<groupVars, infoVars, call>>

InitParse == ParseStart /\ GroupsIdle /\ InfoIdle

NextParse ==
  \/ ParseSegment
  \/ ParseFields
  \/ ParseComponents
  \/ ParseSubcomponents

SpecParse == InitParse /\ [][NextParse]_vars

(***************************************************************************)
(* What the claims on the decomposition read: the slots of the call, cut   *)
(* from the text of the call by the separator of its stage.                *)
(***************************************************************************)
IsReturned == out.status = "ok"

\* the fields of a segment text, the tag being the first
FieldsOfSegment == Split(StripCR(call.text), DefaultEnc.FIELD)

\* the texts of the slots of the call, in order; the first field of the
\* control segment is its separator, whose slot is the empty text before it
SlotTexts ==
  IF call.fn = "parse_segment"
    THEN IF SegmentNameOf(call.text) = <<"M", "S", "H">>
           THEN <<<<>>>> \o Tail(FieldsOfSegment)
           ELSE Tail(FieldsOfSegment)
  ELSE IF call.fn = "parse_fields" THEN Split(StripCR(call.text), DefaultEnc.FIELD)
  ELSE IF call.fn = "parse_components" THEN Split(call.text, DefaultEnc.COMPONENT)
  ELSE Split(call.text, DefaultEnc.SUBCOMPONENT)

\* the prefix the field stage is given
PrefixGiven ==
  IF call.fn = "parse_segment" THEN PrefixOf(SegmentNameOf(call.text)) ELSE call.prefix

IsFieldStage == call.fn \in {"parse_segment", "parse_fields"}

IsEmptyText(text) == Strip(text) = <<>>

\* the slot is the first field of the control segment
IsControlFirst(i) == IsFieldStage /\ PrefixGiven = "MSH" /\ i = 1

\* the stage has no positional name for slot i
Unnamed(i) ==
  IF IsFieldStage THEN PrefixGiven = "None"
  ELSE IF call.fn = "parse_components" THEN IsBaseDatatype(call.datatype)
  ELSE IsBaseDatatype(call.datatype) \/ call.datatype = "None"

\* the positional name of component i is VARIES_i
IsVariesSlot(i) ==
  /\ call.fn = "parse_components"
  /\ ~IsBaseDatatype(call.datatype)
  /\ call.datatype \in {"None", "varies"}

\* a field node holding one leaf of the given value, never split
IsSingleLeaf(node, value) ==
  /\ node.cls = "Field"
  /\ Len(node.children) = 1
  /\ Len(node.children[1].children) = 1
  /\ node.children[1].children[1].cls = "SubComponent"
  /\ node.children[1].children[1].value = value

(***************************************************************************)
(* C7: for a segment whose type the schema does not know, parse_segment    *)
(* returns one unnamed field node for every position of the split of the   *)
(* segment text on the field separator, in order, the positions of empty   *)
(* text included.                                                          *)
(***************************************************************************)
C7_UnknownKeepsEveryPosition ==
  (call.fn = "parse_segment" /\ PrefixGiven = "ZZZ" /\ ~call.force /\ IsReturned) =>
    /\ Len(out.value) = Len(SlotTexts)
    /\ \A i \in 1..Len(SlotTexts) :
         /\ Len(out.slots[i]) = 1
         /\ out.slots[i][1].cls = "Field"
         /\ out.slots[i][1].name = NoName

(***************************************************************************)
(* C8, as stated: at every stage a slot of empty text yields a node if and *)
(* only if the stage has no positional name for it or it is the first      *)
(* field of the control segment; an empty repetition of a named field and  *)
(* an empty component named VARIES_n are dropped.                          *)
(***************************************************************************)
C8_EmptyDroppedUnlessUnnamed ==
  IsReturned =>
    \A i \in 1..Len(SlotTexts) :
      /\ IsEmptyText(SlotTexts[i]) =>
           (out.slots[i] # <<>> <=> (Unnamed(i) \/ IsControlFirst(i)))
      /\ (IsFieldStage /\ ~Unnamed(i) /\ ~IsEmptyText(SlotTexts[i])) =>
           LET reps == Split(SlotTexts[i], DefaultEnc.REPETITION)
           IN  Len(out.slots[i]) <= Cardinality({r \in 1..Len(reps) : ~IsEmptyText(reps[r])})

(***************************************************************************)
(* C8, amended: at every stage a slot whose text is empty or blank yields  *)
(* a node if and only if the stage has no positional name for it, or it is *)
(* the first field of the control segment, or it is a component named      *)
(* VARIES_n.  The test is on the whole field: a field that is kept yields  *)
(* one node for each of its repetitions, the empty ones included (the      *)
(* second field of the control segment yields one node).                   *)
(***************************************************************************)
C8_EmptySlotRule ==
  IsReturned =>
    \A i \in 1..Len(SlotTexts) :
      /\ IsEmptyText(SlotTexts[i]) =>
           (out.slots[i] # <<>> <=> (Unnamed(i) \/ IsControlFirst(i) \/ IsVariesSlot(i)))
      /\ ~IsEmptyText(SlotTexts[i]) =>
           Len(out.slots[i]) =
             IF IsFieldStage /\ ~(PrefixGiven = "MSH" /\ i = 2)
               THEN Len(Split(SlotTexts[i], DefaultEnc.REPETITION))
               ELSE 1

\* a named field dropped for being empty beside a field kept with an empty
\* repetition
C8_Witness ==
  /\ call.fn = "parse_fields"
  /\ call.prefix = "PID"
  /\ IsReturned
  /\ \E i, j \in 1..Len(SlotTexts) :
       /\ SlotTexts[i] = <<>>
       /\ out.slots[i] = <<>>
       /\ SlotTexts[j] = <<"a", "~">>
       /\ Len(out.slots[j]) = 2

\* an empty component named VARIES_n that is kept
C8_VariesKept ==
  /\ call.fn = "parse_components"
  /\ call.datatype = "varies"
  /\ IsReturned
  /\ \E i \in 1..Len(SlotTexts) : SlotTexts[i] = <<>> /\ Len(out.slots[i]) = 1

(***************************************************************************)
(* C10, as stated: in the control segment decoded by parse_segment, field  *)
(* 1 is a single leaf holding the field separator, field 2 is a single     *)
(* leaf holding the encoding characters unsplit, and every later field     *)
(* node is named with its 1-based position.                                *)
(***************************************************************************)
C10_ControlSegment ==
  (call.fn = "parse_segment" /\ PrefixGiven = "MSH" /\ IsReturned) =>
    /\ Len(out.slots[1]) = 1
    /\ IsSingleLeaf(out.slots[1][1], <<DefaultEnc.FIELD>>)
    /\ Len(out.slots[2]) = 1
    /\ IsSingleLeaf(out.slots[2][1], FieldsOfSegment[2])
    /\ \A i \in 3..Len(out.slots) : \A r \in 1..Len(out.slots[i]) :
         out.slots[i][r].name = PositionalName("MSH", i)

(***************************************************************************)
(* C10, amended: field 1 is a single leaf holding the field separator and  *)
(* field 2 a single leaf holding the encoding characters unsplit, each     *)
(* under its name; a later field node is named with its 1-based position   *)
(* when the schema declares that position for the control segment or the   *)
(* segment allows any number of children, and is unnamed otherwise.        *)
(***************************************************************************)
C10_ControlSegmentDeclared ==
  (call.fn = "parse_segment" /\ PrefixGiven = "MSH" /\ IsReturned) =>
    /\ Len(out.slots[1]) = 1
    /\ IsSingleLeaf(out.slots[1][1], <<DefaultEnc.FIELD>>)
    /\ out.slots[1][1].name = PositionalName("MSH", 1)
    /\ Len(out.slots[2]) = 1
    /\ IsSingleLeaf(out.slots[2][1], FieldsOfSegment[2])
    /\ out.slots[2][1].name = PositionalName("MSH", 2)
    /\ \A i \in 3..Len(out.slots) : \A r \in 1..Len(out.slots[i]) :
         out.slots[i][r].name =
           IF i <= call.sch.declared \/ call.force THEN PositionalName("MSH", i)
           ELSE NoName

\* a control segment with its four encoding characters, a declared third
\* field dropped for being empty and a fourth beyond the schema
C10_Witness ==
  /\ call.fn = "parse_segment"
  /\ PrefixGiven = "MSH"
  /\ ~call.force
  /\ IsReturned
  /\ FieldsOfSegment[2] = <<"^", "~", "\\", "&">>
  /\ Len(out.slots) = 4
  /\ out.slots[3] = <<>>
  /\ Len(out.slots[4]) = 1
  /\ out.slots[4][1].name = NoName

(***************************************************************************)
(* create_groups again: what the group slots of a node hold.               *)
(***************************************************************************)
\* the positions of the group slots of a structure
GroupSlots(structure) == {s \in 1..Len(structure) : structure[s].cls = "Group"}

(***************************************************************************)
(* C11: create_groups never attaches, under one parent instance, a second  *)
(* instance of a group whose own slot has maximum cardinality 1: the new   *)
(* instance a repeated segment forces is made where the group slot permits *)
(* repetition.                                                             *)
(***************************************************************************)
C11_NoSecondNonRepeatableGroup ==
  \A nd \in TreeNodes : \A s \in GroupSlots(StructOf(nd)) :
    StructOf(nd)[s].max = 1 => Cardinality(InSlot(nd, StructOf(nd)[s])) <= 1

(***************************************************************************)
(* C12: when the call made for a Group candidate returns -1, the step that *)
(* follows leaves parents, structures and indexes as they were before the  *)
(* candidate was pushed, and the candidate has no parent, is a child of no *)
(* node and holds nothing.                                                 *)
(***************************************************************************)
CandidateFailed == InFind /\ Top.pc = "wait" /\ ret = -1

C12_CandidateDiscarded ==
  [][CandidateFailed =>
       LET g == Top.group
       IN  /\ pc' # "error"
           /\ parents' = pushed[g].parents
           /\ structures' = pushed[g].structures
           /\ indexes' = pushed[g].indexes
           /\ gparent'[g] = -1
           /\ kids'[g] = <<>>
           /\ \A nd \in Nodes : ~\E p \in 1..Len(kids'[nd]) : kids'[nd][p] = GrpRef(g)
           /\ \A i \in 1..Len(segs) : sparent'[i] # g]_vars

\* a candidate H and its candidate K have failed and the candidate G that
\* follows them has placed the segment
C12_Witness ==
  /\ pc = "for"
  /\ \E h, k, g \in 1..Len(gname) :
       /\ h < k /\ k < g
       /\ gname[h] = "H" /\ gname[k] = "K" /\ gname[g] = "G"
       /\ pushed[k].parents = pushed[h].parents \o <<h>>
       /\ pushed[g].parents = pushed[h].parents
       /\ gparent[h] = -1 /\ gparent[k] = -1
       /\ ~(h \in {parents[q] : q \in 1..Len(parents)})
       /\ gparent[g] = 0
       /\ sparent[ci] = g

(***************************************************************************)
(* The segments of the message tree, depth first and left to right.        *)
(***************************************************************************)
RECURSIVE Traverse(_)
Traverse(refs) ==
  IF refs = <<>> THEN <<>>
  ELSE (IF Head(refs).k = "seg" THEN <<Head(refs).i>>
        ELSE Traverse(kids[Head(refs).i]))
       \o Traverse(Tail(refs))

(***************************************************************************)
(* C13: after every segment processed, and so when create_groups has       *)
(* finished, the depth-first, left-to-right traversal of the message tree  *)
(* visits the segments processed so far in their input order.              *)
(***************************************************************************)
C13_TraversalIsInputOrder ==
  Settled => Traverse(kids[0]) = [i \in 1..ci |-> i]

\* a finished run whose root holds a segment, then a group with two
\* segments, the second of them in a nested position or beside the first
C13_Witness ==
  /\ pc = "done"
  /\ Len(segs) = MaxSegs
  /\ Len(kids[0]) = 2
  /\ kids[0][1] = SegRef(1)
  /\ kids[0][2].k = "grp"
  /\ Traverse(kids[0]) = <<1, 2, 3>>

(***************************************************************************)
(* C14: when create_groups takes the next segment, search_data holds at    *)
(* least one frame and its bottom frame is the message with the structure  *)
(* of the message, so that the segment is searched for from the root even  *)
(* after a segment that no frame could place.                              *)
(***************************************************************************)
TakesNext == pc = "for" /\ ci < Len(segs)

C14_RootFrameAtEachSegment ==
  TakesNext =>
    /\ parents # <<>>
    /\ parents[1] = 0
    /\ structures # <<>>
    /\ structures[1] = schema["ROOT"]
    /\ Len(indexes) = Len(parents)

(***************************************************************************)
(* C15: every Group that has a parent, or that some node holds, has at     *)
(* least one segment among its descendants, in every state: a Group is     *)
(* given its parent only after the segment being placed is inside it, and  *)
(* nothing takes a segment out of a group.                                 *)
(***************************************************************************)
Attached(g) == gparent[g] # -1 \/ \E nd \in Nodes : Holds(nd, GrpRef(g))

C15_AttachedGroupsHoldSegments ==
  \A g \in 1..Len(gname) : Attached(g) => Traverse(kids[g]) # <<>>

\* a group H under the message whose only child is a group K that holds
\* the segment just placed
C15_Witness ==
  /\ pc = "for"
  /\ \E h, k \in 1..Len(gname) :
       /\ gname[h] = "H" /\ gname[k] = "K"
       /\ gparent[h] = 0
       /\ gparent[k] = h
       /\ kids[h] = <<GrpRef(k)>>
       /\ kids[k] = <<SegRef(ci)>>
       /\ \E g \in 1..Len(gname) : ~Attached(g)

====
